---- MODULE Spec2Model ----
(***************************************************************************)
(* Model of spotuify's OAuth authorization-code flow                       *)
(* (src/spotuify/api/auth.py): the CallbackHandler class, whose class      *)
(* attributes auth_code / error carry the callback result, and             *)
(* SpotifyAuth.authenticate / get_cached_token / logout.  The wrapped      *)
(* library (spotipy), the HTTP socket, the browser and the caller's hooks  *)
(* are the environment: every call into them returns or raises             *)
(* nondeterministically.                                                   *)
(***************************************************************************)
EXTENDS Integers, Sequences, FiniteSets, TLC

VARIABLES
    tokenCache,   \* the token cache file at config.token_cache_path
    oauth,        \* SpotifyAuth._oauth: TRUE when a SpotifyOAuth object is held
    auth_code,    \* CallbackHandler.auth_code (class attribute)
    error,        \* CallbackHandler.error (class attribute)
    port,         \* the callback port: "free", "server", "leaked", "other"
    now,          \* wall clock, seconds
    pc,           \* position of the authenticate() call
    hooks,        \* the hooks the caller passed (the others are None)
    token_info,   \* authenticate()'s local token_info
    ret,          \* what authenticate() returned, once pc = "returned"
    exc,          \* the exception that left authenticate(), None if none
    log,          \* what the current call did to its environment, in order
    callStart,    \* clock value when the current call started
    waitStart,    \* clock value when the call started waiting for the callback
    nreq,         \* requests handled by the current call
    ntimeouts,    \* handle_request() calls of the current call that timed out
    startCache,   \* tokenCache as it was when the current call started
    calls,        \* authenticate() calls started so far
    issued,       \* token records issued by the token endpoint so far
    lastFlowToken,\* the record the previous call obtained by a code exchange
                  \* and returned, while nothing has touched the cache since
    logouts,      \* logout() calls made in a row since the last authenticate()
    afterLogout,  \* whether the current call was preceded by a logout()
    second,       \* outcome of an authenticate() call started by another
                  \* thread while this one holds the listener
    configured,   \* Config.is_configured()
    spotify,      \* SpotuifyApp.spotify: TRUE once on_mount has made the client
    sp,           \* SpotifyClient._sp
    remote,       \* the playback state held by the Spotify service
    op,           \* the client method or application handler called last
    sent,         \* the remote calls it issued, in order
    result,       \* what it returned, None if it raised
    raised,       \* the exception that left it, None if none
    asked,        \* the volume it was asked for, if it was a set_volume call
    cycled,       \* cycle_repeat calls that succeeded in a row, and the mode
                  \* the remote had before the first of them
    volume,       \* VolumeBar.volume
    is_muted,     \* VolumeBar.is_muted
    pre_mute_volume, \* VolumeBar._pre_mute_volume
    posted,       \* payloads of the VolumeChanged messages posted and not
                  \* yet handled by the application, oldest first
    mutedAt,      \* the widget's volume just before the toggle_mute that
                  \* muted it, how many toggles of that pair (mute, unmute)
                  \* were made while the user left the volume alone, and the
                  \* payload the unmuting one posted
    devices,      \* DeviceSelector.devices
    active_device_id \* DeviceSelector.active_device_id

vars == <<tokenCache, oauth, auth_code, error, port, now, pc, hooks,
          token_info, ret, exc, log, callStart, waitStart, nreq, ntimeouts,
          startCache, calls, issued, lastFlowToken, logouts, afterLogout,
          second, configured, spotify, sp, remote, op, sent, result, raised,
          asked, cycled, volume, is_muted, pre_mute_volume, posted, mutedAt,
          devices, active_device_id>>

(* The variables of the authorization flow, of the client and the        *)
(* application, and of the two widgets.                                  *)
flowVars == <<auth_code, error, port, pc, hooks, token_info, ret, exc, log,
              callStart, waitStart, nreq, ntimeouts, startCache, calls,
              afterLogout, second>>

clientVars == <<configured, spotify, sp, remote, op, sent, result, raised,
                asked, cycled>>

widgetVars == <<volume, is_muted, pre_mute_volume, posted, mutedAt>>

deviceVars == <<devices, active_device_id>>

(* The token cache, the clock and what is derived from them. *)
cacheVars == <<tokenCache, oauth, now, issued, lastFlowToken, logouts>>

(* Python's None, for the string-valued attributes. *)
None == "None"

(* Contents of the token cache file / values of token_info. *)
NoToken == [kind |-> "none"]
Corrupt == [kind |-> "corrupt"]

(* Bounds: calls per run, requests and timeouts per call, token records  *)
(* issued over a client session, VolumeChanged messages not yet handled, *)
(* devices in a list.                                                    *)
MaxDevices == 3
MaxPending == 1
MaxIssued == 2
MaxCalls == 2
MaxRequests == 3
MaxTimeouts == 1

(* Program constants. *)
ServerTimeout == 120
ExpiresIn == 3600

HookNames == {"on_waiting", "on_success", "on_error"}

(* The hook arguments callers pass: none, only the error hook, the two    *)
(* terminal hooks, or all three.                                          *)
HookSets == {{}, {"on_error"}, {"on_success", "on_error"}, HookNames}

(* A token record as the library stores and returns it. *)
Token(n, exp) ==
    [kind |-> "token", access_token |-> <<"access", n>>,
     refresh_token |-> <<"refresh", n>>, expires_at |-> exp]

IsToken(t) == t.kind = "token"

(* oauth.is_token_expired(token_info): the library compares expires_at    *)
(* with the clock, keeping a 60 second margin.                            *)
is_token_expired(t) == t.expires_at - now < 60

(* Number of entries of the call's log whose event is ev. *)
RECURSIVE CountEv(_, _)
CountEv(s, ev) ==
    IF s = <<>> THEN 0
    ELSE (IF Head(s).ev = ev THEN 1 ELSE 0) + CountEv(Tail(s), ev)

(* Position of the first entry whose event is ev, 0 if there is none. *)
FirstEv(s, ev) ==
    IF \E i \in 1..Len(s) : s[i].ev = ev
    THEN CHOOSE i \in 1..Len(s) :
            s[i].ev = ev /\ \A j \in 1..(i - 1) : s[j].ev # ev
    ELSE 0

Ev(e, a) == [ev |-> e, arg |-> a]

Running == pc \notin {"idle", "returned", "raised"}

(* The authorization flow before any authenticate() call. *)
FlowAtRest ==
    /\ oauth = FALSE
    /\ auth_code = None
    /\ error = None
    /\ port = "free"
    /\ now = 0
    /\ pc = "idle"
    /\ hooks = {}
    /\ token_info = NoToken
    /\ ret = NoToken
    /\ exc = None
    /\ log = <<>>
    /\ callStart = 0
    /\ waitStart = 0
    /\ nreq = 0
    /\ ntimeouts = 0
    /\ startCache = NoToken
    /\ calls = 0
    /\ issued = 0
    /\ lastFlowToken = NoToken
    /\ logouts = "none"
    /\ afterLogout = FALSE
    /\ second = None

(* SpotifyClient._sp before authenticate(): None. *)
NoClient == [kind |-> "none"]

(* What the service reports when nothing has been played or changed. *)
DefaultRemote ==
    [active |-> TRUE, is_playing |-> FALSE, shuffle_state |-> FALSE,
     repeat_state |-> "off", volume_percent |-> 50]

(* SpotuifyApp.__init__ and SpotifyClient.__init__: no client, no _sp. *)
ClientAtRest ==
    /\ configured = TRUE
    /\ spotify = FALSE
    /\ sp = NoClient
    /\ remote = DefaultRemote
    /\ op = None
    /\ sent = <<>>
    /\ result = None
    /\ raised = None
    /\ asked = {}
    /\ cycled = [from |-> "off", n |-> 0]

(* No pair of mute toggles is under way. *)
NoMute == [volume |-> -1, toggles |-> 0, unmuted |-> -1]

(* VolumeBar's class-level defaults, lines 43-45; no message is pending. *)
WidgetsAtRest ==
    /\ volume = 50
    /\ is_muted = FALSE
    /\ pre_mute_volume = 50
    /\ posted = <<>>
    /\ mutedAt = NoMute

(* DeviceSelector's defaults, lines 95-96. *)
DevicesAtRest ==
    /\ devices = <<>>
    /\ active_device_id = None

Init ==
    /\ tokenCache \in {NoToken, Token(0, ExpiresIn), Token(0, 0)}
    /\ FlowAtRest
    /\ ClientAtRest
    /\ WidgetsAtRest
    /\ DevicesAtRest

(* A caller invokes SpotifyAuth.authenticate(on_waiting, on_success,      *)
(* on_error); each hook is a callable or None.                            *)
AuthenticateCall ==
    /\ pc = "idle"
    /\ calls < MaxCalls
    /\ \E h \in HookSets : hooks' = h
    /\ pc' = "get_cached_token"
    /\ token_info' = NoToken
    /\ ret' = NoToken
    /\ exc' = None
    /\ log' = <<>>
    /\ callStart' = now
    /\ waitStart' = now
    /\ nreq' = 0
    /\ ntimeouts' = 0
    /\ startCache' = tokenCache
    /\ calls' = calls + 1
    /\ UNCHANGED <<tokenCache, oauth, auth_code, error, port, now, issued>>
    /\ UNCHANGED <<lastFlowToken, second>>
    /\ logouts' = "none"
    /\ afterLogout' = (logouts # "none")
    /\ UNCHANGED <<clientVars, widgetVars, deviceVars>>

(* ---- the callback request: urlparse / parse_qs ------------------------ *)

(* A query string is a sequence of name=value fields as sent on the wire. *)
Field(k, v) == [k |-> k, v |-> v]

(* Percent / plus decoding that parse_qs applies to every value. *)
unquote(v) ==
    CASE v = "a%2Fb" -> "a/b"
      [] v = "x+y" -> "x y"
      [] OTHER -> v

(* parse_qs(query)[k]: the decoded values of the fields named k, in wire  *)
(* order; fields with a blank value are dropped (keep_blank_values=False).*)
RECURSIVE ValuesOf(_, _)
ValuesOf(q, k) ==
    IF q = <<>> THEN <<>>
    ELSE (IF Head(q).k = k /\ Head(q).v # ""
          THEN <<unquote(Head(q).v)>> ELSE <<>>) \o ValuesOf(Tail(q), k)

(* "k in params" *)
InParams(q, k) == ValuesOf(q, k) # <<>>

(* The query strings the environment sends to the callback endpoint. *)
Queries ==
    { <<Field("state", "s"), Field("code", "")>>,
      <<Field("code", "a%2Fb"), Field("code", "zzz")>>,
      <<Field("error", "access_denied")>>,
      <<Field("error", "access_denied"), Field("code", "abc")>> }

(* Seconds a request takes to arrive within one handle_request(); less    *)
(* than server.timeout, or the call would have timed out instead.         *)
RequestDelay == 60

(* Messages of the exceptions the token endpoint calls raise. *)
ExchangeErrors == {"invalid_grant", "network"}

(* ---- SpotifyAuth.get_cached_token and the cache-hit return ------------ *)

(* What oauth.get_cached_token() yields for the cache file: the record,   *)
(* None for an absent or unreadable file, None or an exception for a      *)
(* malformed one.                                                         *)
LoadOutcomes(c) ==
    CASE c = NoToken -> {NoToken}
      [] c = Corrupt -> {NoToken, [kind |-> "raise"]}
      [] OTHER -> {c}

(* Mutant of Persisted: no cache_path reaches the library, so nothing is *)
(* written.                                                              *)
Persisted_Nowhere(t) == tokenCache

(* What the token cache file holds once the library, configured with     *)
(* cache_path = config.token_cache_path, has obtained the record t.      *)
Persisted(t) == t

(* Mutant of RefreshArg: the access token is sent instead. *)
RefreshArg_AccessToken(t) == t.access_token

(* The argument of oauth.refresh_access_token at line 95. *)
RefreshArg(t) == t.refresh_token

(* SpotifyAuth.get_cached_token, lines 87-97, as called at line 117. *)
get_cached_token ==
    /\ pc = "get_cached_token"
    /\ oauth' = TRUE
    /\ \E t \in LoadOutcomes(tokenCache) :
         \/ /\ t.kind = "raise"
            /\ pc' = "raised"
            /\ exc' = "cache_error"
            /\ UNCHANGED <<token_info, tokenCache, issued, log>>
         \/ /\ t = NoToken
            /\ pc' = "start_listener"
            /\ UNCHANGED <<token_info, tokenCache, issued, log, exc>>
         \/ /\ IsToken(t)
            /\ ~is_token_expired(t)
            /\ token_info' = t
            /\ pc' = "cache_hit"
            /\ UNCHANGED <<tokenCache, issued, log, exc>>
         \/ /\ IsToken(t)
            /\ is_token_expired(t)
            /\ \/ /\ token_info' = Token(issued + 1, now + ExpiresIn)
                  /\ tokenCache' = Persisted(token_info')
                  /\ issued' = issued + 1
                  /\ log' = log \o <<Ev("refresh", RefreshArg(t)),
                                     Ev("save", issued + 1)>>
                  /\ pc' = "cache_hit"
                  /\ exc' = exc
               \/ /\ log' = Append(log, Ev("refresh", RefreshArg(t)))
                  /\ pc' = "raised"
                  /\ exc' = "refresh_failed"
                  /\ UNCHANGED <<token_info, tokenCache, issued>>
    /\ UNCHANGED <<callStart, ret, auth_code, error, port, now, hooks,
                   waitStart, nreq, ntimeouts, startCache, calls>>
    /\ UNCHANGED <<lastFlowToken, logouts, afterLogout, second>>
    /\ UNCHANGED <<clientVars, widgetVars, deviceVars>>

(* Mutant of ReturnCached: the truthiness test inverted, so a cached     *)
(* token falls through to the interactive step.                          *)
ReturnCached_FallsThrough ==
    /\ pc = "cache_hit"
    /\ pc' = "start_listener"
    /\ UNCHANGED <<tokenCache, oauth, auth_code, error, port, now, hooks,
                   token_info, ret, exc, log, callStart, waitStart, nreq,
                   ntimeouts, startCache, calls, issued>>
    /\ UNCHANGED <<lastFlowToken, logouts, afterLogout, second>>
    /\ UNCHANGED <<clientVars, widgetVars, deviceVars>>

(* authenticate(), lines 118-121: the cached token is truthy. *)
ReturnCached ==
    /\ pc = "cache_hit"
    /\ \/ /\ "on_success" \notin hooks
          /\ pc' = "returned"
          /\ ret' = token_info
          /\ UNCHANGED <<log, exc>>
       \/ /\ "on_success" \in hooks
          /\ log' = Append(log, Ev("on_success", ""))
          /\ \/ pc' = "returned" /\ ret' = token_info /\ exc' = exc
             \/ pc' = "raised" /\ ret' = ret /\ exc' = "hook_error"
    /\ UNCHANGED <<callStart, tokenCache, oauth, auth_code, error, port, now,
                   hooks, token_info, waitStart, nreq, ntimeouts, startCache,
                   calls, issued>>
    /\ UNCHANGED <<lastFlowToken, logouts, afterLogout, second>>
    /\ UNCHANGED <<clientVars, widgetVars, deviceVars>>

(* ---- the interactive step ---------------------------------------------*)

(* Mutant of StartListener: lines 132-133 left out. *)
StartListener_NoReset ==
    /\ pc = "start_listener"
    /\ UNCHANGED <<auth_code, error>>
    /\ \/ /\ port = "free"
          /\ port' = "server"
          /\ log' = Append(log, Ev("bind", ""))
          /\ pc' = "open_browser"
          /\ exc' = exc
       \/ /\ port # "free"
          /\ port' = port
          /\ log' = Append(log, Ev("bind_failed", ""))
          /\ pc' = "raised"
          /\ exc' = "address_in_use"
    /\ UNCHANGED <<callStart, ret, tokenCache, oauth, now, hooks, token_info,
                   waitStart, nreq, ntimeouts, startCache, calls, issued>>
    /\ UNCHANGED <<lastFlowToken, logouts, afterLogout, second>>
    /\ UNCHANGED <<clientVars, widgetVars, deviceVars>>

(* authenticate(), lines 123-137: reset the handler state, then bind. *)
StartListener ==
    /\ pc = "start_listener"
    /\ auth_code' = None
    /\ error' = None
    /\ \/ /\ port = "free"
          /\ port' = "server"
          /\ log' = Append(log, Ev("bind", ""))
          /\ pc' = "open_browser"
          /\ exc' = exc
       \/ /\ port # "free"
          /\ port' = port
          /\ log' = Append(log, Ev("bind_failed", ""))
          /\ pc' = "raised"
          /\ exc' = "address_in_use"
    /\ UNCHANGED <<callStart, ret, tokenCache, oauth, now, hooks, token_info,
                   waitStart, nreq, ntimeouts, startCache, calls, issued>>
    /\ UNCHANGED <<lastFlowToken, logouts, afterLogout, second>>
    /\ UNCHANGED <<clientVars, widgetVars, deviceVars>>

(* authenticate(), lines 139-141: build the URL and open the browser;     *)
(* an exception of either leaves the function with the server unclosed.   *)
OpenBrowser ==
    /\ pc = "open_browser"
    /\ \/ /\ log' = Append(log, Ev("open_browser", ""))
          /\ pc' = "on_waiting"
          /\ UNCHANGED <<port, exc>>
       \/ /\ \E m \in {"url_error", "browser_error"} : exc' = m
          /\ pc' = "raised"
          /\ port' = "leaked"
          /\ log' = log
    /\ UNCHANGED <<callStart, ret, tokenCache, oauth, auth_code, error, now,
                   hooks, token_info, waitStart, nreq, ntimeouts, startCache,
                   calls, issued>>
    /\ UNCHANGED <<lastFlowToken, logouts, afterLogout, second>>
    /\ UNCHANGED <<clientVars, widgetVars, deviceVars>>

(* Mutant of OnWaiting: the hook is invoked before the browser is opened *)
(* and again here.                                                       *)
OnWaiting_Twice ==
    /\ pc = "on_waiting"
    /\ pc' = "waiting"
    /\ log' = IF "on_waiting" \in hooks
              THEN log \o <<Ev("on_waiting", ""), Ev("on_waiting", "")>>
              ELSE log
    /\ waitStart' = now
    /\ UNCHANGED <<tokenCache, oauth, auth_code, error, port, now, hooks,
                   token_info, ret, exc, callStart, nreq, ntimeouts,
                   startCache, calls, issued>>
    /\ UNCHANGED <<lastFlowToken, logouts, afterLogout, second>>
    /\ UNCHANGED <<clientVars, widgetVars, deviceVars>>

(* authenticate(), lines 143-144. *)
OnWaiting ==
    /\ pc = "on_waiting"
    /\ \/ /\ "on_waiting" \notin hooks
          /\ pc' = "waiting"
          /\ UNCHANGED <<log, exc, port>>
       \/ /\ "on_waiting" \in hooks
          /\ log' = Append(log, Ev("on_waiting", ""))
          /\ \/ pc' = "waiting" /\ UNCHANGED <<exc, port>>
             \/ pc' = "raised" /\ exc' = "hook_error" /\ port' = "leaked"
    /\ waitStart' = now
    /\ UNCHANGED <<callStart, ret, tokenCache, oauth, auth_code, error, now,
                   hooks, token_info, nreq, ntimeouts, startCache, calls,
                   issued>>
    /\ UNCHANGED <<lastFlowToken, logouts, afterLogout, second>>
    /\ UNCHANGED <<clientVars, widgetVars, deviceVars>>

(* The loop condition of line 147. *)
LoopCondition == auth_code = None /\ error = None

(* Mutant of do_GET: two independent tests instead of if / elif. *)
do_GET_BothRecorded(q) ==
    [auth_code |-> IF InParams(q, "code") THEN ValuesOf(q, "code")[1]
                   ELSE auth_code,
     error |-> IF InParams(q, "error") THEN ValuesOf(q, "error")[1]
               ELSE error,
     status |-> IF InParams(q, "code") THEN 200 ELSE 400]

(* Mutant of do_GET: takes the last code value instead of the first. *)
do_GET_LastCode(q) ==
    IF InParams(q, "code")
    THEN [auth_code |-> ValuesOf(q, "code")[Len(ValuesOf(q, "code"))],
          error |-> error, status |-> 200]
    ELSE IF InParams(q, "error")
    THEN [auth_code |-> auth_code, error |-> ValuesOf(q, "error")[1],
          status |-> 400]
    ELSE [auth_code |-> auth_code, error |-> error, status |-> 400]

(* Mutant of do_GET: the error branch stores into auth_code. *)
do_GET_ErrorAsCode(q) ==
    IF InParams(q, "code")
    THEN [auth_code |-> ValuesOf(q, "code")[1], error |-> error,
          status |-> 200]
    ELSE IF InParams(q, "error")
    THEN [auth_code |-> ValuesOf(q, "error")[1], error |-> error,
          status |-> 400]
    ELSE [auth_code |-> auth_code, error |-> error, status |-> 400]

(* Mutant of do_GET: the final else branch records an error as well. *)
do_GET_ElseRecords(q) ==
    IF InParams(q, "code")
    THEN [auth_code |-> ValuesOf(q, "code")[1], error |-> error,
          status |-> 200]
    ELSE IF InParams(q, "error")
    THEN [auth_code |-> auth_code, error |-> ValuesOf(q, "error")[1],
          status |-> 400]
    ELSE [auth_code |-> auth_code, error |-> "invalid_request",
          status |-> 400]

(* CallbackHandler.do_GET for a request whose query is q: the new value   *)
(* of the two class attributes and the status sent.                       *)
do_GET(q) ==
    IF InParams(q, "code")
    THEN [auth_code |-> ValuesOf(q, "code")[1], error |-> error,
          status |-> 200]
    ELSE IF InParams(q, "error")
    THEN [auth_code |-> auth_code, error |-> ValuesOf(q, "error")[1],
          status |-> 400]
    ELSE [auth_code |-> auth_code, error |-> error, status |-> 400]

(* One iteration of the loop, lines 147-148, in which a request arrives   *)
(* within server.timeout and is handled by do_GET.                        *)
HandleRequest ==
    /\ pc = "waiting"
    /\ LoopCondition
    /\ nreq < MaxRequests
    /\ RequestDelay < ServerTimeout
    /\ \E q \in Queries :
         LET r == do_GET(q) IN
         /\ auth_code' = r.auth_code
         /\ error' = r.error
         /\ log' = Append(log, [ev |-> "request", arg |-> "", query |-> q,
                                status |-> r.status])
    /\ now' = now + RequestDelay
    /\ nreq' = nreq + 1
    /\ UNCHANGED <<callStart, ret, tokenCache, oauth, port, pc, hooks,
                   token_info, exc, waitStart, ntimeouts, startCache, calls,
                   issued>>
    /\ UNCHANGED <<lastFlowToken, logouts, afterLogout, second>>
    /\ UNCHANGED <<clientVars, widgetVars, deviceVars>>

(* One iteration of the loop in which no request arrives for               *)
(* server.timeout seconds: handle_request() calls handle_timeout(), which  *)
(* does nothing, and returns.                                              *)
HandleTimeout ==
    /\ pc = "waiting"
    /\ LoopCondition
    /\ ntimeouts < MaxTimeouts
    /\ now' = now + ServerTimeout
    /\ ntimeouts' = ntimeouts + 1
    /\ UNCHANGED <<ret, tokenCache, oauth, auth_code, error, port, pc, hooks,
                   token_info, exc, log, callStart, waitStart, nreq,
                   startCache, calls, issued>>
    /\ UNCHANGED <<lastFlowToken, logouts, afterLogout, second>>
    /\ UNCHANGED <<clientVars, widgetVars, deviceVars>>

(* Line 150, reached when the loop condition is false. *)
ServerClose ==
    /\ pc = "waiting"
    /\ ~LoopCondition
    /\ port' = "free"
    /\ log' = Append(log, Ev("server_close", ""))
    /\ pc' = "closed"
    /\ UNCHANGED <<callStart, ret, tokenCache, oauth, auth_code, error, now,
                   hooks, token_info, exc, waitStart, nreq, ntimeouts,
                   startCache, calls, issued>>
    /\ UNCHANGED <<lastFlowToken, logouts, afterLogout, second>>
    /\ UNCHANGED <<clientVars, widgetVars, deviceVars>>

(* Lines 152-155. *)
ReportError ==
    /\ pc = "closed"
    /\ error # None
    /\ ret' = NoToken
    /\ \/ /\ "on_error" \notin hooks
          /\ pc' = "returned"
          /\ UNCHANGED <<log, exc>>
       \/ /\ "on_error" \in hooks
          /\ log' = Append(log, Ev("on_error", error))
          /\ \/ pc' = "returned" /\ exc' = exc
             \/ pc' = "raised" /\ exc' = "hook_error"
    /\ UNCHANGED <<callStart, tokenCache, oauth, auth_code, error, port, now,
                   hooks, token_info, waitStart, nreq, ntimeouts, startCache,
                   calls, issued>>
    /\ UNCHANGED <<lastFlowToken, logouts, afterLogout, second>>
    /\ UNCHANGED <<clientVars, widgetVars, deviceVars>>

(* Mutant of ErrorText: a fixed text instead of the exception's own. *)
ErrorText_Generic(m) == "authentication failed"

(* str(e) of line 166 for an exception whose message is m. *)
ErrorText(m) == m

(* Lines 157-167: exchange the code; on_success runs inside the try, so   *)
(* the except clause also catches what on_success raises.                 *)
ExchangeCode ==
    /\ pc = "closed"
    /\ error = None
    /\ auth_code # None
    /\ \/ /\ token_info' = Token(issued + 1, now + ExpiresIn)
          /\ tokenCache' = Persisted(token_info')
          /\ issued' = issued + 1
          /\ \/ /\ "on_success" \notin hooks
                /\ log' = log \o <<Ev("exchange", auth_code),
                                   Ev("save", issued + 1)>>
                /\ pc' = "returned"
                /\ ret' = token_info'
                /\ exc' = exc
             \/ /\ "on_success" \in hooks
                /\ \/ /\ log' = log \o <<Ev("exchange", auth_code),
                                         Ev("save", issued + 1),
                                         Ev("on_success", "")>>
                      /\ pc' = "returned"
                      /\ ret' = token_info'
                      /\ exc' = exc
                   \/ /\ "on_error" \notin hooks
                      /\ log' = log \o <<Ev("exchange", auth_code),
                                         Ev("save", issued + 1),
                                         Ev("on_success", "")>>
                      /\ pc' = "returned"
                      /\ ret' = NoToken
                      /\ exc' = exc
                   \/ /\ "on_error" \in hooks
                      /\ log' = log \o <<Ev("exchange", auth_code),
                                         Ev("save", issued + 1),
                                         Ev("on_success", ""),
                                         Ev("on_error",
                                            ErrorText("hook_error"))>>
                      /\ \/ pc' = "returned" /\ ret' = NoToken /\ exc' = exc
                         \/ pc' = "raised" /\ ret' = ret
                            /\ exc' = "hook_error"
       \/ /\ UNCHANGED <<token_info, tokenCache, issued>>
          /\ \E m \in ExchangeErrors :
               \/ /\ "on_error" \notin hooks
                  /\ log' = log \o <<Ev("exchange", auth_code),
                                     Ev("exchange_failed", m)>>
                  /\ pc' = "returned"
                  /\ ret' = NoToken
                  /\ exc' = exc
               \/ /\ "on_error" \in hooks
                  /\ log' = log \o <<Ev("exchange", auth_code),
                                     Ev("exchange_failed", m),
                                     Ev("on_error", ErrorText(m))>>
                  /\ \/ pc' = "returned" /\ ret' = NoToken /\ exc' = exc
                     \/ pc' = "raised" /\ ret' = ret /\ exc' = "hook_error"
    /\ UNCHANGED <<callStart, oauth, auth_code, error, port, now, hooks,
                   waitStart, nreq, ntimeouts, startCache, calls>>
    /\ UNCHANGED <<lastFlowToken, logouts, afterLogout, second>>
    /\ UNCHANGED <<clientVars, widgetVars, deviceVars>>

(* ---- SpotifyAuth.logout ------------------------------------------------*)

(* authenticate() has returned or raised: the caller takes the result    *)
(* and the call's frame, with its locals, is gone.                       *)
CallerResumes ==
    /\ pc \in {"returned", "raised"}
    /\ pc' = "idle"
    /\ hooks' = {}
    /\ token_info' = NoToken
    /\ ret' = NoToken
    /\ exc' = None
    /\ log' = <<>>
    /\ callStart' = 0
    /\ waitStart' = 0
    /\ nreq' = 0
    /\ ntimeouts' = 0
    /\ startCache' = NoToken
    /\ lastFlowToken' = IF pc = "returned" /\ IsToken(ret)
                             /\ CountEv(log, "exchange") = 1
                         THEN ret
                         ELSE NoToken
    /\ logouts' = "none"
    /\ afterLogout' = FALSE
    /\ second' = None
    /\ UNCHANGED <<tokenCache, oauth, auth_code, error, port, now, calls,
                   issued>>
    /\ UNCHANGED <<clientVars, widgetVars, deviceVars>>

(* Whether os.path.exists finds the token cache file. *)
FileExists == tokenCache # NoToken

(* Mutant of logout: os.remove without the os.path.exists test, which     *)
(* raises FileNotFoundError when there is no file.                        *)
logout_NoExistsTest ==
    /\ pc = "idle"
    /\ IF FileExists
       THEN /\ tokenCache' = NoToken
            /\ oauth' = FALSE
            /\ logouts' = IF logouts = "none" THEN "once" ELSE "twice"
       ELSE /\ UNCHANGED <<tokenCache, oauth>>
            /\ logouts' = "raised"
    /\ lastFlowToken' = NoToken
    /\ UNCHANGED <<auth_code, error, port, now, pc, hooks, token_info, ret,
                   exc, log, callStart, waitStart, nreq, ntimeouts, startCache,
                   calls, issued, afterLogout, second>>
    /\ UNCHANGED <<clientVars, widgetVars, deviceVars>>

(* Mutant of logout: only the SpotifyOAuth object is dropped, the file    *)
(* stays.                                                                 *)
logout_KeepsFile ==
    /\ pc = "idle"
    /\ tokenCache' = tokenCache
    /\ oauth' = FALSE
    /\ logouts' = IF logouts = "none" THEN "once" ELSE "twice"
    /\ lastFlowToken' = NoToken
    /\ UNCHANGED <<auth_code, error, port, now, pc, hooks, token_info, ret,
                   exc, log, callStart, waitStart, nreq, ntimeouts, startCache,
                   calls, issued, afterLogout, second>>
    /\ UNCHANGED <<clientVars, widgetVars, deviceVars>>

(* SpotifyAuth.logout, lines 178-184, called between two authenticate()   *)
(* calls: remove the cache file if it exists, drop the SpotifyOAuth.      *)
logout ==
    /\ pc = "idle"
    /\ tokenCache' = IF FileExists THEN NoToken ELSE tokenCache
    /\ oauth' = FALSE
    /\ logouts' = IF logouts = "none" THEN "once" ELSE "twice"
    /\ lastFlowToken' = NoToken
    /\ UNCHANGED <<auth_code, error, port, now, pc, hooks, token_info, ret,
                   exc, log, callStart, waitStart, nreq, ntimeouts, startCache,
                   calls, issued, afterLogout, second>>
    /\ UNCHANGED <<clientVars, widgetVars, deviceVars>>

(* ---- the environment ---------------------------------------------------*)

(* Another process takes or gives back the callback port. *)
OtherProcessBinds ==
    /\ pc = "idle"
    /\ port = "free"
    /\ port' = "other"
    /\ UNCHANGED <<tokenCache, oauth, auth_code, error, now, pc, hooks,
                   token_info, ret, exc, log, callStart, waitStart, nreq,
                   ntimeouts, startCache, calls, issued>>
    /\ UNCHANGED <<lastFlowToken, logouts, afterLogout, second>>
    /\ UNCHANGED <<clientVars, widgetVars, deviceVars>>

OtherProcessReleases ==
    /\ pc = "idle"
    /\ port = "other"
    /\ port' = "free"
    /\ UNCHANGED <<tokenCache, oauth, auth_code, error, now, pc, hooks,
                   token_info, ret, exc, log, callStart, waitStart, nreq,
                   ntimeouts, startCache, calls, issued>>
    /\ UNCHANGED <<lastFlowToken, logouts, afterLogout, second>>
    /\ UNCHANGED <<clientVars, widgetVars, deviceVars>>

(* The HTTPServer object an exception left unclosed is collected and its  *)
(* socket closed.                                                         *)
CollectServer ==
    /\ port = "leaked"
    /\ port' = "free"
    /\ UNCHANGED <<tokenCache, oauth, auth_code, error, now, pc, hooks,
                   token_info, ret, exc, log, callStart, waitStart, nreq,
                   ntimeouts, startCache, calls, issued>>
    /\ UNCHANGED <<lastFlowToken, logouts, afterLogout, second>>
    /\ UNCHANGED <<clientVars, widgetVars, deviceVars>>

(* The cache file is truncated or overwritten with something that is not *)
(* a token record.                                                       *)
CacheDamaged ==
    /\ pc = "idle"
    /\ IsToken(tokenCache)
    /\ tokenCache' = Corrupt
    /\ lastFlowToken' = NoToken
    /\ UNCHANGED <<oauth, auth_code, error, port, now, pc, hooks, token_info,
                   ret, exc, log, callStart, waitStart, nreq, ntimeouts,
                   startCache, calls, issued>>
    /\ UNCHANGED <<logouts, afterLogout, second>>
    /\ UNCHANGED <<clientVars, widgetVars, deviceVars>>

(* Time passes between two calls, until the cached token has expired. *)
TimePasses ==
    /\ pc = "idle"
    /\ IsToken(tokenCache)
    /\ ~is_token_expired(tokenCache)
    /\ now' = tokenCache.expires_at
    /\ lastFlowToken' = NoToken
    /\ UNCHANGED <<tokenCache, oauth, auth_code, error, port, pc, hooks,
                   token_info, ret, exc, log, callStart, waitStart, nreq,
                   ntimeouts, startCache, calls, issued>>
    /\ UNCHANGED <<logouts, afterLogout, second>>
    /\ UNCHANGED <<clientVars, widgetVars, deviceVars>>

Next ==
    \/ AuthenticateCall
    \/ get_cached_token
    \/ ReturnCached
    \/ StartListener
    \/ OpenBrowser
    \/ OnWaiting
    \/ HandleRequest
    \/ HandleTimeout
    \/ ServerClose
    \/ ReportError
    \/ ExchangeCode
    \/ CallerResumes
    \/ logout
    \/ OtherProcessBinds
    \/ OtherProcessReleases
    \/ CollectServer
    \/ CacheDamaged
    \/ TimePasses

Spec == Init /\ [][Next]_vars

(* ---- a second caller ---------------------------------------------------*)

(* Another thread of the process calls authenticate() while this call is  *)
(* in the accept loop; CallbackHandler's class attributes are shared.     *)
(* Lines 117-136 of that call: the cache holds no token, lines 132-133    *)
(* clear the two class attributes, and the bind of line 136 fails because *)
(* this call's listener holds the port, so the exception leaves that call *)
(* before line 141 opens a browser.                                       *)
SecondAuthenticate ==
    /\ pc = "waiting"
    /\ port = "server"
    /\ ~IsToken(tokenCache)
    /\ second = None
    /\ auth_code' = None
    /\ error' = None
    /\ second' = "address_in_use"
    /\ UNCHANGED <<tokenCache, oauth, port, now, pc, hooks, token_info, ret,
                   exc, log, callStart, waitStart, nreq, ntimeouts, startCache,
                   calls, issued, lastFlowToken, logouts,
                   afterLogout>>
    /\ UNCHANGED <<clientVars, widgetVars, deviceVars>>

NextConcurrent == Next \/ SecondAuthenticate

SpecConcurrent == Init /\ [][NextConcurrent]_vars

(* ---- SpotifyClient (api/client.py) -------------------------------------*)

(* spotipy.Spotify(auth=a), the value of _sp after authenticate(). *)
Spotify(a) == [kind |-> "spotify", auth |-> a]

(* SpotifyClient.is_authenticated, lines 42-44. *)
is_authenticated == sp # NoClient

(* The repeat modes of the service, and one the client does not know. *)
RepeatModes == {"off", "context", "track"}
ReportedModes == RepeatModes \cup {"album"}

(* The volumes callers ask set_volume for. *)
RequestedVolumes == {-20, 30, 250}

(* A remote call either succeeds or raises spotipy.SpotifyException. *)
RemoteOutcomes == {"ok", "SpotifyException"}

(* One remote call: the spotipy method, its argument, whether it        *)
(* succeeded, and what it returned.                                      *)
Call(c, a, o, v) == [call |-> c, arg |-> a, outcome |-> o, value |-> v]

(* Mutant of Returned: the except clause returns the value of success. *)
Returned_NoFallback(o, ok, fallback) == ok

(* try: ... return ok  except spotipy.SpotifyException: return fallback *)
Returned(o, ok, fallback) == IF o = "ok" THEN ok ELSE fallback

(* What the last call did: the remote calls issued, the value returned    *)
(* (None for a call that raised), the exception that escaped.             *)
DoneAsked(name, a, s, r, e) ==
    /\ op' = name
    /\ asked' = a
    /\ sent' = s
    /\ result' = r
    /\ raised' = e

Done(name, s, r, e) == DoneAsked(name, {}, s, r, e)

(* Mutant of NotAuthenticated: the check returns instead of raising. *)
NotAuthenticated_Silent(name) ==
    /\ Done(name, <<>>, None, None)
    /\ UNCHANGED <<remote, cycled>>

(* _ensure_authenticated (lines 54-57) and the sp property (35-40) when   *)
(* _sp is None: RuntimeError before anything is sent.                     *)
NotAuthenticated(name) ==
    /\ Done(name, <<>>, None, "RuntimeError")
    /\ UNCHANGED <<remote, cycled>>

(* The methods of the shape                                               *)
(*   self._ensure_authenticated()                                         *)
(*   try: <one remote call>; return <value>                               *)
(*   except spotipy.SpotifyException: return <fallback>                   *)
(* with the remote call each issues and the two values.                   *)
SimpleMethods ==
    { [name |-> "play", call |-> "start_playback", ok |-> "True",
       fallback |-> "False"],
      [name |-> "pause", call |-> "pause_playback", ok |-> "True",
       fallback |-> "False"],
      [name |-> "next_track", call |-> "next_track", ok |-> "True",
       fallback |-> "False"],
      [name |-> "previous_track", call |-> "previous_track", ok |-> "True",
       fallback |-> "False"],
      [name |-> "seek", call |-> "seek_track", ok |-> "True",
       fallback |-> "False"],
      [name |-> "play_uri", call |-> "start_playback", ok |-> "True",
       fallback |-> "False"],
      [name |-> "get_devices", call |-> "devices", ok |-> "devices",
       fallback |-> "[]"],
      [name |-> "transfer_playback", call |-> "transfer_playback",
       ok |-> "True", fallback |-> "False"],
      [name |-> "get_user_playlists", call |-> "current_user_playlists",
       ok |-> "page", fallback |-> "{items: [], total: 0}"],
      [name |-> "get_playlist_tracks", call |-> "playlist_tracks",
       ok |-> "page", fallback |-> "{items: [], total: 0}"],
      [name |-> "get_playlist", call |-> "playlist", ok |-> "playlist",
       fallback |-> "None"],
      [name |-> "get_saved_tracks", call |-> "current_user_saved_tracks",
       ok |-> "page", fallback |-> "{items: [], total: 0}"],
      [name |-> "get_saved_albums", call |-> "current_user_saved_albums",
       ok |-> "page", fallback |-> "{items: [], total: 0}"],
      [name |-> "get_followed_artists",
       call |-> "current_user_followed_artists", ok |-> "page",
       fallback |-> "{artists: {items: [], total: 0}}"],
      [name |-> "save_track", call |-> "current_user_saved_tracks_add",
       ok |-> "True", fallback |-> "False"],
      [name |-> "remove_saved_track",
       call |-> "current_user_saved_tracks_delete", ok |-> "True",
       fallback |-> "False"],
      [name |-> "is_track_saved",
       call |-> "current_user_saved_tracks_contains", ok |-> "bool",
       fallback |-> "False"],
      [name |-> "get_album", call |-> "album", ok |-> "album",
       fallback |-> "None"],
      [name |-> "get_album_tracks", call |-> "album_tracks", ok |-> "page",
       fallback |-> "{items: [], total: 0}"],
      [name |-> "get_artist", call |-> "artist", ok |-> "artist",
       fallback |-> "None"],
      [name |-> "get_artist_top_tracks", call |-> "artist_top_tracks",
       ok |-> "tracks", fallback |-> "[]"],
      [name |-> "get_artist_albums", call |-> "artist_albums", ok |-> "page",
       fallback |-> "{items: [], total: 0}"],
      [name |-> "search", call |-> "search", ok |-> "results",
       fallback |-> "{}"],
      [name |-> "get_recently_played",
       call |-> "current_user_recently_played", ok |-> "page",
       fallback |-> "{items: []}"],
      [name |-> "get_current_user", call |-> "current_user", ok |-> "user",
       fallback |-> "None"],
      [name |-> "add_to_queue", call |-> "add_to_queue", ok |-> "True",
       fallback |-> "False"],
      [name |-> "get_queue", call |-> "queue", ok |-> "queue",
       fallback |-> "{currently_playing: None, queue: []}"] }

(* The effect of a remote call the service has applied. *)
Applied(c, a) ==
    CASE c = "start_playback" -> [remote EXCEPT !.is_playing = TRUE,
                                                !.active = TRUE]
      [] c = "pause_playback" -> [remote EXCEPT !.is_playing = FALSE]
      [] c = "volume" -> [remote EXCEPT !.volume_percent = a]
      [] c = "shuffle" -> [remote EXCEPT !.shuffle_state = a]
      [] c = "repeat" -> [remote EXCEPT !.repeat_state = a]
      [] OTHER -> remote

(* The service refuses playback commands while no device is active; it   *)
(* may refuse any call (expired token, rate limit, server error).        *)
OutcomesOf(c) ==
    IF remote.active \/ c \notin {"pause_playback", "next_track",
                                  "previous_track", "seek_track", "volume",
                                  "shuffle", "repeat", "add_to_queue"}
    THEN RemoteOutcomes
    ELSE {"SpotifyException"}

(* What an application handler keeps of the client's return value:        *)
(* nothing.                                                               *)
Kept(app, r) == IF app THEN None ELSE r

(* A call of one of SimpleMethods, as the client method itself or from    *)
(* the application handler named name.                                    *)
SimpleCall(name, app, m, a) ==
    IF ~is_authenticated
    THEN NotAuthenticated(name)
    ELSE \E o \in OutcomesOf(m.call) :
             /\ Done(name, <<Call(m.call, a, o, "")>>,
                     Kept(app, Returned(o, m.ok, m.fallback)), None)
             /\ remote' = IF o = "ok" THEN Applied(m.call, a) ELSE remote
             /\ cycled' = cycled

(* PlaybackState values; None when the state could not be read. *)
NoState == [kind |-> "none"]

PlaybackState(p, s, r, v) ==
    [kind |-> "state", is_playing |-> p, shuffle_state |-> s,
     repeat_state |-> r, volume_percent |-> v]

(* The PlaybackState get_playback_state (lines 63-87) builds from what    *)
(* sp.current_playback() yielded: None on SpotifyException, the dataclass *)
(* defaults when nothing is playing, else the reported fields.            *)
StateOf(current) ==
    IF current.kind = "error" THEN NoState
    ELSE IF current.kind = "nothing" THEN PlaybackState(FALSE, FALSE, "off", 50)
    ELSE PlaybackState(current.is_playing, current.shuffle_state,
                       current.repeat_state, current.volume_percent)

(* What sp.current_playback() yields for outcome o: an exception, None    *)
(* when no device is active, else the service's playback object.          *)
Current(o) ==
    IF o = "SpotifyException" THEN [kind |-> "error"]
    ELSE IF ~remote.active THEN [kind |-> "nothing"]
    ELSE [kind |-> "playback", is_playing |-> remote.is_playing,
          shuffle_state |-> remote.shuffle_state,
          repeat_state |-> remote.repeat_state,
          volume_percent |-> remote.volume_percent]

StateRead(o) == StateOf(Current(o))

(* The entry of sent for that call. *)
Read(o) == Call("current_playback", "", o, Current(o))

get_playback_state ==
    IF ~is_authenticated
    THEN NotAuthenticated("get_playback_state")
    ELSE \E o \in RemoteOutcomes :
             /\ Done("get_playback_state", <<Read(o)>>,
                     Returned(o, "PlaybackState", "None"), None)
             /\ UNCHANGED <<remote, cycled>>

(* Mutant of PlaybackCommand: pauses unless the state read says paused. *)
PlaybackCommand_PauseByDefault(st) ==
    IF st.kind = "state" /\ ~st.is_playing THEN "start_playback"
    ELSE "pause_playback"

(* The command toggle_playback chooses, lines 110-112. *)
PlaybackCommand(st) ==
    IF st.kind = "state" /\ st.is_playing THEN "pause_playback"
    ELSE "start_playback"

(* toggle_playback, lines 107-112: get_playback_state(), then pause() or  *)
(* play().                                                                *)
toggle_playback(name, app) ==
    IF ~is_authenticated
    THEN NotAuthenticated(name)
    ELSE \E o \in RemoteOutcomes :
           LET c == PlaybackCommand(StateRead(o)) IN
           \E o2 \in OutcomesOf(c) :
             /\ Done(name, <<Read(o), Call(c, "", o2, "")>>,
                     Kept(app, Returned(o2, "True", "False")), None)
             /\ remote' = IF o2 = "ok" THEN Applied(c, "") ELSE remote
             /\ cycled' = cycled

(* Mutant of ClampVolume: only the upper limit is applied. *)
ClampVolume_NoFloor(v) == IF v > 100 THEN 100 ELSE v

(* max(0, min(100, v)) of client.py line 144 and volume_bar.py line 60. *)
ClampVolume(v) ==
    LET m == IF 100 < v THEN 100 ELSE v IN IF 0 > m THEN 0 ELSE m

(* set_volume, lines 141-149. *)
set_volume(name, app, v) ==
    IF ~is_authenticated
    THEN NotAuthenticated(name)
    ELSE \E o \in OutcomesOf("volume") :
             /\ DoneAsked(name, {v},
                          <<Call("volume", ClampVolume(v), o, "")>>,
                          Kept(app, Returned(o, "True", "False")), None)
             /\ remote' = IF o = "ok" THEN Applied("volume", ClampVolume(v))
                          ELSE remote
             /\ cycled' = cycled

(* toggle_shuffle, lines 151-161. *)
toggle_shuffle(name, app) ==
    IF ~is_authenticated
    THEN NotAuthenticated(name)
    ELSE \E o \in RemoteOutcomes :
           LET st == StateRead(o) IN
           IF st = NoState
           THEN /\ Done(name, <<Read(o)>>,
                        Kept(app, "False"), None)
                /\ UNCHANGED <<remote, cycled>>
           ELSE \E o2 \in OutcomesOf("shuffle") :
                  /\ Done(name, <<Read(o),
                                  Call("shuffle", ~st.shuffle_state, o2, "")>>,
                          Kept(app, Returned(o2, "True", "False")), None)
                  /\ remote' = IF o2 = "ok"
                               THEN Applied("shuffle", ~st.shuffle_state)
                               ELSE remote
                  /\ cycled' = cycled

(* Mutant of NextRepeat: the cycle runs the other way. *)
NextRepeat_Backwards(mode) ==
    CASE mode = "off" -> "track"
      [] mode = "track" -> "context"
      [] mode = "context" -> "off"
      [] OTHER -> "off"

(* The dictionary lookup of lines 168-172. *)
NextRepeat(mode) ==
    CASE mode = "off" -> "context"
      [] mode = "context" -> "track"
      [] mode = "track" -> "off"
      [] OTHER -> "off"

(* cycle_repeat, lines 163-178. *)
cycle_repeat(name, app) ==
    IF ~is_authenticated
    THEN NotAuthenticated(name)
    ELSE \E o \in RemoteOutcomes :
           LET st == StateRead(o) IN
           IF st = NoState
           THEN /\ Done(name, <<Read(o)>>,
                        Kept(app, "off"), None)
                /\ remote' = remote
                /\ cycled' = [from |-> "off", n |-> 0]
           ELSE \E o2 \in OutcomesOf("repeat") :
                  LET next_state == NextRepeat(st.repeat_state) IN
                  /\ Done(name, <<Read(o),
                                  Call("repeat", next_state, o2, "")>>,
                          Kept(app, Returned(o2, next_state, "off")), None)
                  /\ remote' = IF o2 = "ok" THEN Applied("repeat", next_state)
                               ELSE remote
                  /\ cycled' = IF o2 # "ok" THEN [from |-> "off", n |-> 0]
                               ELSE IF cycled.n \in {1, 2}
                               THEN [cycled EXCEPT !.n = cycled.n + 1]
                               ELSE [from |-> remote.repeat_state, n |-> 1]

(* SpotifyAuth.get_cached_token (auth.py 87-97) as SpotifyClient calls    *)
(* it: the exception it raises (None if none), the record it returns      *)
(* (NoToken for None) and whether that record comes from a refresh.       *)
CachedTokenOutcomes ==
    UNION { CASE t.kind = "raise" ->
                   {[e |-> "cache_error", t |-> NoToken, refreshed |-> FALSE]}
              [] t.kind = "none" ->
                   {[e |-> None, t |-> NoToken, refreshed |-> FALSE]}
              [] t.kind = "token" /\ ~is_token_expired(t) ->
                   {[e |-> None, t |-> t, refreshed |-> FALSE]}
              [] OTHER ->
                   {[e |-> None, t |-> Token(issued + 1, now + ExpiresIn),
                     refreshed |-> TRUE],
                    [e |-> "refresh_failed", t |-> NoToken,
                     refreshed |-> FALSE]}
            : t \in LoadOutcomes(tokenCache) }

(* What get_cached_token does to the library object and the cache file. *)
TokenLoaded(c) ==
    /\ oauth' = TRUE
    /\ tokenCache' = IF c.refreshed THEN Persisted(c.t) ELSE tokenCache
    /\ issued' = IF c.refreshed THEN issued + 1 ELSE issued
    /\ logouts' = "none"
    /\ UNCHANGED <<now, lastFlowToken>>

(* SpotifyClient.authenticate, lines 46-52. *)
ClientAuthenticate ==
    /\ \E c \in CachedTokenOutcomes :
         /\ TokenLoaded(c)
         /\ sp' = IF IsToken(c.t) THEN Spotify(c.t.access_token) ELSE sp
         /\ Done("authenticate", <<>>,
                 IF c.e # None THEN None
                 ELSE IF IsToken(c.t) THEN "True" ELSE "False", c.e)
    /\ UNCHANGED <<configured, spotify, remote, cycled>>
    /\ UNCHANGED <<flowVars, widgetVars, deviceVars>>

(* ---- SpotuifyApp (app.py) ----------------------------------------------*)

(* on_mount, lines 78-106: make the client; authenticate from the cache   *)
(* if credentials are configured; load the playlists if that succeeded    *)
(* (_load_initial_data catches every exception); push the main screen.    *)
on_mount ==
    /\ ~spotify
    /\ spotify' = TRUE
    /\ IF ~configured
       THEN /\ Done("on_mount", <<>>, "main", None)
            /\ UNCHANGED <<sp, cacheVars>>
       ELSE \E c \in CachedTokenOutcomes :
              /\ TokenLoaded(c)
              /\ sp' = IF IsToken(c.t) THEN Spotify(c.t.access_token) ELSE sp
              /\ \E o \in RemoteOutcomes :
                   Done("on_mount",
                        IF IsToken(c.t)
                        THEN <<Call("current_user_playlists", "", o, "")>>
                        ELSE <<>>,
                        IF c.e # None THEN None ELSE "main", c.e)
    /\ UNCHANGED <<configured, remote, cycled>>
    /\ UNCHANGED <<flowVars, widgetVars, deviceVars>>

(* What stays as it is across a client method or a playback handler. *)
ClientFrame ==
    /\ UNCHANGED <<configured, spotify, sp, cacheVars>>
    /\ UNCHANGED <<flowVars, widgetVars, deviceVars>>

(* A handler whose "if self.spotify:" test fails does nothing. *)
NoClientYet(name) ==
    /\ Done(name, <<>>, None, None)
    /\ UNCHANGED <<remote, cycled>>

Method(n) == CHOOSE m \in SimpleMethods : m.name = n

(* Lines 196-199. *)
action_toggle_play ==
    /\ IF spotify THEN toggle_playback("action_toggle_play", TRUE)
       ELSE NoClientYet("action_toggle_play")
    /\ ClientFrame

(* Lines 201-204. *)
action_next_track ==
    /\ IF spotify
       THEN SimpleCall("action_next_track", TRUE, Method("next_track"), "")
       ELSE NoClientYet("action_next_track")
    /\ ClientFrame

(* Lines 206-209. *)
action_previous_track ==
    /\ IF spotify
       THEN SimpleCall("action_previous_track", TRUE,
                       Method("previous_track"), "")
       ELSE NoClientYet("action_previous_track")
    /\ ClientFrame

(* The step of action_volume_up and action_volume_down. *)
VolumeStep == 5

(* action_volume_up (d = 5) and action_volume_down (d = -5), lines        *)
(* 211-225: read the state, and if it could be read set the volume to     *)
(* min(100, v + 5) or max(0, v - 5).                                      *)
AdjustVolume(name, d) ==
    IF ~spotify THEN NoClientYet(name)
    ELSE IF ~is_authenticated THEN NotAuthenticated(name)
    ELSE \E o \in RemoteOutcomes :
           LET st == StateRead(o)
               v == st.volume_percent + d
               new_volume == IF d > 0 THEN (IF v > 100 THEN 100 ELSE v)
                             ELSE (IF v < 0 THEN 0 ELSE v)
           IN
           IF st = NoState
           THEN /\ Done(name, <<Read(o)>>, None, None)
                /\ UNCHANGED <<remote, cycled>>
           ELSE \E o2 \in OutcomesOf("volume") :
                  /\ Done(name, <<Read(o),
                                  Call("volume", ClampVolume(new_volume), o2,
                                       "")>>,
                          None, None)
                  /\ remote' = IF o2 = "ok"
                               THEN Applied("volume", ClampVolume(new_volume))
                               ELSE remote
                  /\ cycled' = cycled

action_volume_up ==
    /\ AdjustVolume("action_volume_up", VolumeStep)
    /\ ClientFrame

action_volume_down ==
    /\ AdjustVolume("action_volume_down", -VolumeStep)
    /\ ClientFrame

(* Lines 227-230. *)
action_toggle_shuffle ==
    /\ IF spotify THEN toggle_shuffle("action_toggle_shuffle", TRUE)
       ELSE NoClientYet("action_toggle_shuffle")
    /\ ClientFrame

(* Lines 232-235. *)
action_cycle_repeat ==
    /\ IF spotify THEN cycle_repeat("action_cycle_repeat", TRUE)
       ELSE NoClientYet("action_cycle_repeat")
    /\ ClientFrame

(* ---- direct calls of the client's methods ------------------------------*)

CallSimpleMethod ==
    /\ \E m \in SimpleMethods : SimpleCall(m.name, FALSE, m, "")
    /\ ClientFrame

CallGetPlaybackState ==
    /\ get_playback_state
    /\ ClientFrame

CallTogglePlayback ==
    /\ toggle_playback("toggle_playback", FALSE)
    /\ ClientFrame

CallSetVolume ==
    /\ \E v \in RequestedVolumes : set_volume("set_volume", FALSE, v)
    /\ ClientFrame

CallToggleShuffle ==
    /\ toggle_shuffle("toggle_shuffle", FALSE)
    /\ ClientFrame

CallCycleRepeat ==
    /\ cycle_repeat("cycle_repeat", FALSE)
    /\ ClientFrame

(* Another Spotify client of the same account changes the playback: it    *)
(* starts or stops a device, plays or pauses, or sets the repeat mode.    *)
RemoteChanges ==
    /\ \/ remote' = [remote EXCEPT !.active = ~remote.active]
       \/ remote' = [remote EXCEPT !.is_playing = ~remote.is_playing]
       \/ \E r \in ReportedModes \ {remote.repeat_state} :
              remote' = [remote EXCEPT !.repeat_state = r]
    /\ cycled' = [from |-> "off", n |-> 0]
    /\ UNCHANGED <<op, sent, result, raised, asked>>
    /\ ClientFrame

(* A client that has not authenticated, or one that has. *)
InitClient ==
    /\ tokenCache = Token(0, ExpiresIn)
    /\ FlowAtRest
    /\ configured = TRUE
    /\ spotify = FALSE
    /\ sp \in {NoClient, Spotify(Token(0, ExpiresIn).access_token)}
    /\ remote = DefaultRemote
    /\ op = None
    /\ sent = <<>>
    /\ result = None
    /\ raised = None
    /\ asked = {}
    /\ cycled = [from |-> "off", n |-> 0]
    /\ WidgetsAtRest
    /\ DevicesAtRest

NextClient ==
    \/ CallSimpleMethod
    \/ CallGetPlaybackState
    \/ CallTogglePlayback
    \/ CallSetVolume
    \/ CallToggleShuffle
    \/ CallCycleRepeat
    \/ RemoteChanges

SpecClient == InitClient /\ [][NextClient]_vars

(* The application from start-up on: whatever the cache file holds, with  *)
(* or without configured credentials.                                     *)
InitApp ==
    /\ tokenCache \in {NoToken, Corrupt, Token(0, ExpiresIn), Token(0, 0)}
    /\ FlowAtRest
    /\ ClientAtRest
    /\ WidgetsAtRest
    /\ DevicesAtRest

InitAppAnyConfig ==
    \E c \in BOOLEAN :
        /\ tokenCache \in {NoToken, Corrupt, Token(0, ExpiresIn), Token(0, 0)}
        /\ FlowAtRest
        /\ configured = c
        /\ spotify = FALSE
        /\ sp = NoClient
        /\ remote = DefaultRemote
        /\ op = None
        /\ sent = <<>>
        /\ result = None
        /\ raised = None
        /\ asked = {}
        /\ cycled = [from |-> "off", n |-> 0]
        /\ WidgetsAtRest
        /\ DevicesAtRest

NextApp ==
    \/ on_mount
    \/ action_toggle_play
    \/ action_next_track
    \/ action_previous_track
    \/ action_volume_up
    \/ action_volume_down
    \/ action_toggle_shuffle
    \/ action_cycle_repeat

SpecApp == InitAppAnyConfig /\ [][NextApp]_vars

(* A client and the SpotifyAuth it owns, over a session of authenticate() *)
(* and logout() calls.                                                    *)
NextSession ==
    \/ ClientAuthenticate
    \/ logout
    \/ (issued < MaxIssued /\ TimePasses)
    \/ CallSimpleMethod

SpecSession == InitApp /\ [][NextSession]_vars

(* ---- VolumeBar (widgets/volume_bar.py) and its handlers in the app -----*)

(* VolumeBar.set_volume, lines 58-63: the clamped level; a level above    *)
(* zero clears the mute flag.                                             *)
BarSet(v) ==
    /\ volume' = ClampVolume(v)
    /\ is_muted' = IF ClampVolume(v) > 0 THEN FALSE ELSE is_muted

(* self.post_message(self.VolumeChanged(v)). *)
Post(v) == posted' = Append(posted, v)

(* What a handler of the application leaves alone outside the widgets. *)
ClientStays ==
    UNCHANGED <<configured, spotify, sp, cacheVars, flowVars, deviceVars>>

(* What a method of the widget leaves alone. *)
WidgetFrame == UNCHANGED <<clientVars, cacheVars, flowVars, deviceVars>>

(* A call of set_volume from outside the widget, with any integer. *)
VolumeBarSetVolume ==
    /\ \E v \in RequestedVolumes : BarSet(v)
    /\ mutedAt' = NoMute
    /\ UNCHANGED <<pre_mute_volume, posted>>
    /\ WidgetFrame

(* The pair of toggles this toggle belongs to: a toggle that mutes opens  *)
(* a pair, one that unmutes closes the pair that is open.                 *)
Toggled(payload) ==
    IF ~is_muted THEN [volume |-> volume, toggles |-> 1, unmuted |-> -1]
    ELSE IF mutedAt.toggles = 1
    THEN [volume |-> mutedAt.volume, toggles |-> 2, unmuted |-> payload]
    ELSE NoMute

(* toggle_mute, lines 86-95. *)
toggle_mute ==
    /\ Len(posted) < MaxPending
    /\ IF is_muted
       THEN /\ is_muted' = FALSE
            /\ Post(volume)
            /\ UNCHANGED pre_mute_volume
       ELSE /\ pre_mute_volume' = volume
            /\ is_muted' = TRUE
            /\ Post(0)
    /\ mutedAt' = Toggled(posted'[Len(posted')])
    /\ UNCHANGED volume
    /\ WidgetFrame

(* The amounts the widget is asked to step by: the one the tests use and *)
(* one that passes either end of the range from the default level.       *)
VolumeAmounts == {10, 60}

(* increase_volume and decrease_volume, lines 97-105, by d: set_volume,  *)
(* then post the new level.                                              *)
StepVolume(d) ==
    /\ Len(posted) < MaxPending
    /\ BarSet(volume + d)
    /\ Post(ClampVolume(volume + d))
    /\ mutedAt' = NoMute
    /\ UNCHANGED pre_mute_volume

increase_volume ==
    /\ \E amount \in VolumeAmounts : StepVolume(amount)
    /\ WidgetFrame

decrease_volume ==
    /\ \E amount \in VolumeAmounts : StepVolume(-amount)
    /\ WidgetFrame

(* _update_playback_state, app.py lines 131-190, run by the one-second    *)
(* timer: hands the volume the service reports to VolumeBar.set_volume;   *)
(* does nothing when the state cannot be read.                            *)
update_playback_state ==
    /\ spotify /\ is_authenticated
    /\ \E o \in RemoteOutcomes :
         /\ IF StateRead(o) = NoState
            THEN UNCHANGED <<volume, is_muted>>
            ELSE BarSet(StateRead(o).volume_percent)
         /\ Done("_update_playback_state", <<Read(o)>>, None, None)
    /\ UNCHANGED <<pre_mute_volume, posted, mutedAt>>
    /\ UNCHANGED <<remote, cycled>>
    /\ ClientStays

(* on_volume_bar_volume_changed, app.py lines 311-314: the oldest pending *)
(* VolumeChanged message goes to the client's set_volume.                 *)
on_volume_bar_volume_changed ==
    /\ posted # <<>>
    /\ posted' = Tail(posted)
    /\ IF spotify
       THEN set_volume("on_volume_bar_volume_changed", TRUE, Head(posted))
       ELSE NoClientYet("on_volume_bar_volume_changed")
    /\ UNCHANGED <<volume, is_muted, pre_mute_volume, mutedAt>>
    /\ ClientStays

(* The main screen of an authenticated application. *)
InitWidgets ==
    /\ tokenCache = Token(0, ExpiresIn)
    /\ FlowAtRest
    /\ configured = TRUE
    /\ spotify = TRUE
    /\ sp = Spotify(Token(0, ExpiresIn).access_token)
    /\ remote = DefaultRemote
    /\ op = None
    /\ sent = <<>>
    /\ result = None
    /\ raised = None
    /\ asked = {}
    /\ cycled = [from |-> "off", n |-> 0]
    /\ WidgetsAtRest
    /\ DevicesAtRest

NextWidgets ==
    \/ VolumeBarSetVolume
    \/ toggle_mute
    \/ increase_volume
    \/ decrease_volume
    \/ on_volume_bar_volume_changed
    \/ CallSetVolume

SpecWidgets == InitWidgets /\ [][NextWidgets]_vars

NextMute ==
    \/ toggle_mute
    \/ increase_volume
    \/ decrease_volume
    \/ update_playback_state
    \/ on_volume_bar_volume_changed

SpecMute == InitWidgets /\ [][NextMute]_vars

(* ---- DeviceSelector (widgets/device_selector.py) ----------------------*)

DeviceIds == {"device123", "device456", "device789"}

(* A device as the service lists it: its id and its is_active flag. *)
Device == [id : DeviceIds, is_active : BOOLEAN]

(* The lists set_devices is called with. *)
DeviceLists == UNION {[1..n -> Device] : n \in 0..MaxDevices}

(* The positions of ds the loop of lines 114-117 stops at. *)
ActiveIn(ds) == {i \in DOMAIN ds : ds[i].is_active}

(* set_devices, lines 109-119: keep the list; the loop assigns            *)
(* active_device_id at the first active device and breaks, and assigns    *)
(* nothing when it finds none.                                            *)
set_devices ==
    /\ \E ds \in DeviceLists :
         /\ devices' = ds
         /\ active_device_id' =
                IF ActiveIn(ds) = {} THEN active_device_id
                ELSE ds[CHOOSE i \in ActiveIn(ds) :
                            \A j \in ActiveIn(ds) : i <= j].id
    /\ UNCHANGED <<clientVars, cacheVars, flowVars, widgetVars>>

(* A device selector as it is mounted. *)
InitDevices ==
    /\ tokenCache = Token(0, ExpiresIn)
    /\ FlowAtRest
    /\ ClientAtRest
    /\ WidgetsAtRest
    /\ DevicesAtRest

NextDevices == set_devices

SpecDevices == InitDevices /\ [][NextDevices]_vars

(* ---- properties --------------------------------------------------------*)

(* 1 if the caller passed hook h, else 0: how often an "exactly once"     *)
(* hook can have been invoked.                                            *)
Hooked(h) == IF h \in hooks THEN 1 ELSE 0

Finished == pc \in {"returned", "raised"}

(* The cache held an unexpired token record when the current call started.*)
ValidAtStart == IsToken(startCache) /\ startCache.expires_at - callStart >= 60

(* The query carries a non-blank field named k. *)
Carries(q, k) == \E i \in 1..Len(q) : q[i].k = k /\ q[i].v # ""

(* The decoded value of the first non-blank field named k. *)
Carried(q, k) ==
    LET i == CHOOSE n \in 1..Len(q) :
                 /\ q[n].k = k /\ q[n].v # ""
                 /\ \A j \in 1..(n - 1) : ~(q[j].k = k /\ q[j].v # "")
    IN  unquote(q[i].v)

(* The log entries that are callback requests. *)
Requests == {i \in 1..Len(log) : log[i].ev = "request"}

(* C1: a call made while the cache holds a valid, unexpired record never  *)
(* binds the listener, opens the browser, calls the token endpoint or     *)
(* invokes on_waiting / on_error; it returns that record after invoking   *)
(* on_success once (the only other exit is on_success itself raising).    *)
C1_CacheHitReturnsRecord ==
    (pc # "idle" /\ ValidAtStart) =>
        /\ pc \in {"get_cached_token", "cache_hit", "returned", "raised"}
        /\ \A e \in {"bind", "bind_failed", "open_browser", "exchange",
                     "refresh", "on_waiting", "on_error", "request"} :
               CountEv(log, e) = 0
        /\ port # "server"
        /\ pc = "returned" =>
               /\ ret = startCache
               /\ CountEv(log, "on_success") = Hooked("on_success")
        /\ pc = "raised" =>
               /\ exc = "hook_error"
               /\ CountEv(log, "on_success") = 1

C1_Witness ==
    /\ pc = "returned"
    /\ ValidAtStart
    /\ startCache.access_token # <<"access", 0>>
    /\ ret = startCache
    /\ "on_success" \in hooks
    /\ log = <<Ev("on_success", "")>>

(* C2: a request whose query carries code=C is answered 200, and the call *)
(* that handled it issues the token exchange exactly once, with C, after  *)
(* the request.                                                           *)
C2_CodeExchangedOnce ==
    \A i \in Requests :
        Carries(log[i].query, "code") =>
            /\ log[i].status = 200
            /\ CountEv(log, "exchange") <= 1
            /\ Finished =>
                   /\ CountEv(log, "exchange") = 1
                   /\ FirstEv(log, "exchange") > i
                   /\ log[FirstEv(log, "exchange")].arg
                          = Carried(log[i].query, "code")

C2_Witness ==
    /\ pc = "returned"
    /\ \E i \in Requests :
           log[i].query = <<Field("code", "a%2Fb"), Field("code", "zzz")>>
    /\ \E j \in 1..Len(log) : log[j].ev = "exchange" /\ log[j].arg = "a/b"
    /\ CountEv(log, "exchange") = 1

(* C3: a request whose query carries error=E and no code ends the call    *)
(* with None returned, on_error invoked once with E, no token exchange    *)
(* and nothing written to the token cache (the only other exit is         *)
(* on_error itself raising).                                              *)
C3_ErrorReported ==
    \A i \in Requests :
        (Carries(log[i].query, "error") /\ ~Carries(log[i].query, "code")) =>
            /\ CountEv(log, "exchange") = 0
            /\ CountEv(log, "save") = 0
            /\ CountEv(log, "on_success") = 0
            /\ tokenCache = startCache \/ ~Running
            /\ Finished =>
                   /\ CountEv(log, "on_error") = Hooked("on_error")
                   /\ \A j \in 1..Len(log) : log[j].ev = "on_error" =>
                          log[j].arg = Carried(log[i].query, "error")
                   /\ pc = "returned" => ret = NoToken
                   /\ pc = "raised" =>
                          exc = "hook_error" /\ "on_error" \in hooks

C3_Witness ==
    /\ pc = "returned"
    /\ ret = NoToken
    /\ \E i \in Requests : log[i].query = <<Field("error", "access_denied")>>
    /\ \E j \in 1..Len(log) :
           log[j].ev = "on_error" /\ log[j].arg = "access_denied"
    /\ CountEv(log, "on_error") = 1
(* C4: once server.timeout has elapsed with no callback carrying code or  *)
(* error, the call is out of the accept loop: it has failed, reported a   *)
(* timeout through on_error once, and released the port.                  *)
C4_TimeoutEndsInFailed ==
    ntimeouts > 0 =>
        /\ pc # "waiting"
        /\ port # "server"
        /\ pc = "returned" =>
               /\ ret = NoToken
               /\ CountEv(log, "on_error") = Hooked("on_error")

(* C5: one overall deadline bounds the wait: no call is still in the      *)
(* accept loop later than server.timeout after it started waiting.        *)
C5_OverallDeadline ==
    pc = "waiting" => now - waitStart <= ServerTimeout

(* C6: no failure of the cache load, the refresh, the URL construction or *)
(* the exchange leaves authenticate() as an exception, and a call that    *)
(* returns None has delivered the reason through on_error.                *)
C6_NeverRaises ==
    /\ pc = "raised" =>
           exc \notin {"cache_error", "refresh_failed", "url_error",
                       "invalid_grant", "network"}
    /\ (pc = "returned" /\ ret = NoToken) =>
           CountEv(log, "on_error") = Hooked("on_error")

(* A refresh call of the current call that did not yield a record. *)
RefreshFailed ==
    \E i \in 1..Len(log) :
        /\ log[i].ev = "refresh"
        /\ i = Len(log) \/ log[i + 1].ev # "save"

(* C7: when the cached record cannot be used (absent, unreadable,         *)
(* malformed, or expired with a failing refresh) the call goes on to the  *)
(* interactive step: once the cache check is over it is about to bind or  *)
(* has attempted the bind.                                                *)
C7_UnusableCacheIsMiss ==
    (/\ pc \notin {"idle", "get_cached_token"}
     /\ ~IsToken(startCache) \/ RefreshFailed) =>
        \/ pc = "start_listener"
        \/ CountEv(log, "bind") + CountEv(log, "bind_failed") = 1

(* The query carries neither a code nor an error. *)
Malformed(q) == ~Carries(q, "code") /\ ~Carries(q, "error")

(* C8: a request carrying neither code nor error is answered 400 and,     *)
(* when it is the latest request handled, both result fields are still    *)
(* unset and the call is still in the accept loop with the port bound.    *)
C8_MalformedKeepsWaiting ==
    \A i \in Requests :
        Malformed(log[i].query) =>
            /\ log[i].status = 400
            /\ i = Len(log) =>
                   /\ pc = "waiting"
                   /\ auth_code = None
                   /\ error = None
                   /\ port = "server"

C8_Witness ==
    /\ pc = "returned"
    /\ IsToken(ret)
    /\ Cardinality(Requests) = 3
    /\ \E i, j, k \in Requests :
           /\ i < j /\ j < k
           /\ log[i].query = <<Field("state", "s"), Field("code", "")>>
           /\ log[j].query = log[i].query
           /\ log[i].status = 400 /\ log[j].status = 400
           /\ log[k].query = <<Field("code", "a%2Fb"), Field("code", "zzz")>>
           /\ log[k].status = 200

(* C9: the interactive step binds the port, then opens the browser, then  *)
(* invokes on_waiting once, then accepts requests; a failed bind leaves   *)
(* the call at once as an exception, with nothing else done.              *)
C9_BindBrowserWaitingOrder ==
    /\ \A e \in {"bind", "open_browser", "on_waiting"} : CountEv(log, e) <= 1
    /\ CountEv(log, "open_browser") = 1 =>
           /\ FirstEv(log, "bind") > 0
           /\ FirstEv(log, "bind") < FirstEv(log, "open_browser")
    /\ CountEv(log, "on_waiting") = 1 =>
           /\ FirstEv(log, "open_browser") > 0
           /\ FirstEv(log, "open_browser") < FirstEv(log, "on_waiting")
    /\ pc \in {"open_browser", "on_waiting", "waiting"} => port = "server"
    /\ (pc = "waiting" \/ Requests # {}) =>
           /\ CountEv(log, "open_browser") = 1
           /\ CountEv(log, "on_waiting") = Hooked("on_waiting")
           /\ \A i \in Requests :
                  /\ i > FirstEv(log, "open_browser")
                  /\ i > FirstEv(log, "on_waiting")
    /\ (CountEv(log, "bind_failed") > 0
            \/ (pc = "raised" /\ exc = "address_in_use")) =>
           /\ log = <<Ev("bind_failed", "")>>
           /\ pc = "raised"
           /\ exc = "address_in_use"
           /\ port # "server"

C9_Witness ==
    /\ pc = "waiting"
    /\ "on_waiting" \in hooks
    /\ Len(log) = 4
    /\ log[1].ev = "bind"
    /\ log[2].ev = "open_browser"
    /\ log[3].ev = "on_waiting"
    /\ log[4].ev = "request"

(* C10: a call that returns a token has invoked on_success once and       *)
(* on_error never; a call that returns None has invoked on_error once     *)
(* and on_success never.                                                  *)
C10_TerminalHookOnce ==
    pc = "returned" =>
        IF IsToken(ret)
        THEN /\ CountEv(log, "on_success") = Hooked("on_success")
             /\ CountEv(log, "on_error") = 0
        ELSE /\ CountEv(log, "on_error") = Hooked("on_error")
             /\ CountEv(log, "on_success") = 0
(* The position of the failure of the current call's exchange, 0 if the   *)
(* exchange was not attempted or did not fail.                            *)
ExchangeFailure == FirstEv(log, "exchange_failed")

(* C11: when the code exchange raises, on_success is not invoked, the     *)
(* exception's message is what on_error receives, and the call returns    *)
(* None (the only other exit is on_error itself raising).                 *)
C11_ExchangeFailureReported ==
    ExchangeFailure > 0 =>
        /\ CountEv(log, "on_success") = 0
        /\ CountEv(log, "save") = 0
        /\ CountEv(log, "on_error") = Hooked("on_error")
        /\ \A j \in 1..Len(log) : log[j].ev = "on_error" =>
               /\ j > ExchangeFailure
               /\ log[j].arg = log[ExchangeFailure].arg
        /\ Finished
        /\ pc = "returned" => ret = NoToken
        /\ pc = "raised" => exc = "hook_error" /\ "on_error" \in hooks

C11_Witness ==
    /\ pc = "returned"
    /\ ret = NoToken
    /\ "on_success" \in hooks
    /\ Len(log) >= 3
    /\ log[Len(log) - 2].ev = "exchange"
    /\ log[Len(log) - 1] = Ev("exchange_failed", "invalid_grant")
    /\ log[Len(log)] = Ev("on_error", "invalid_grant")
(* C12: the call that immediately follows a successful interactive flow   *)
(* (no logout, no cache damage and no passing of time in between) finds   *)
(* the record that flow returned in the cache and returns it through the  *)
(* cache-hit path: no listener, no browser, no token endpoint call.       *)
C12_ExchangedTokenIsCached ==
    IsToken(lastFlowToken) =>
        /\ pc = "idle" => tokenCache = lastFlowToken
        /\ pc # "idle" =>
              /\ startCache = lastFlowToken
              /\ pc \in {"get_cached_token", "cache_hit", "returned", "raised"}
              /\ \A i \in 1..Len(log) : log[i].ev = "on_success"
              /\ pc = "returned" => ret = lastFlowToken
              /\ pc = "raised" => exc = "hook_error"

C12_Witness ==
    /\ IsToken(lastFlowToken)
    /\ pc = "returned"
    /\ ret = lastFlowToken
    /\ calls = 2
    /\ log = <<Ev("on_success", "")>>
(* The current call has ended in Success: it returned a token record. *)
Succeeded == pc = "returned" /\ IsToken(ret)

(* C13: a call that has finished without Success has left the token       *)
(* cache exactly as it was when the call started.                         *)
C13_FailureKeepsCache ==
    (Finished /\ ~Succeeded) => tokenCache = startCache
(* C14: a call that bound the port and has finished, by return or by      *)
(* exception, has closed the listener and released the port; and the      *)
(* listener is closed before the token exchange is started.               *)
C14_ListenerClosed ==
    /\ (Finished /\ CountEv(log, "bind") > 0) =>
           /\ CountEv(log, "server_close") = 1
           /\ port \notin {"server", "leaked"}
    /\ CountEv(log, "exchange") > 0 =>
           /\ FirstEv(log, "server_close") > 0
           /\ FirstEv(log, "server_close") < FirstEv(log, "exchange")
(* C15: at most one of the two result fields is set at any time; the      *)
(* first request that carries a code or an error is the last request the  *)
(* loop handles, and the fields hold what that request carried: the code  *)
(* alone if it carried both.                                              *)
C15_ResultSetOnce ==
    /\ ~(auth_code # None /\ error # None)
    /\ \A i \in Requests :
           ~Malformed(log[i].query) =>
               /\ \A j \in Requests : j <= i
               /\ Carries(log[i].query, "code") =>
                      /\ auth_code = Carried(log[i].query, "code")
                      /\ error = None
               /\ ~Carries(log[i].query, "code") =>
                      /\ error = Carried(log[i].query, "error")
                      /\ auth_code = None

C15_Witness ==
    /\ pc = "closed"
    /\ \E i \in Requests :
           /\ Carries(log[i].query, "code")
           /\ Carries(log[i].query, "error")
    /\ \E i \in Requests : Malformed(log[i].query)
    /\ auth_code = "abc"
    /\ error = None
(* C16: both result fields are unset when an attempt starts waiting,      *)
(* whatever earlier attempts left in them, so the code an attempt         *)
(* exchanges and the error it reports were carried by a request that      *)
(* same attempt handled.                                                  *)
C16_ResultBelongsToAttempt ==
    /\ pc \in {"open_browser", "on_waiting"} => LoopCondition
    /\ (pc = "waiting" /\ Requests = {}) => LoopCondition
    /\ (pc = "closed" \/ CountEv(log, "server_close") > 0) =>
           \E j \in Requests :
               /\ j < FirstEv(log, "server_close")
               /\ auth_code # None =>
                      /\ Carries(log[j].query, "code")
                      /\ auth_code = Carried(log[j].query, "code")
               /\ error # None =>
                      /\ Carries(log[j].query, "error")
                      /\ error = Carried(log[j].query, "error")
    /\ \A i \in 1..Len(log) :
           /\ log[i].ev = "exchange" => log[i].arg = auth_code
           /\ (log[i].ev = "on_error" /\ CountEv(log, "exchange") = 0) =>
                  log[i].arg = error

(* The second call is waiting with both fields unset although the first   *)
(* call left its code in auth_code: the first call handled one request    *)
(* and had a record issued, which a logout has since removed.             *)
C16_Witness ==
    /\ calls = 2
    /\ pc = "waiting"
    /\ Requests = {}
    /\ LoopCondition
    /\ afterLogout
    /\ issued = 1
    /\ callStart = RequestDelay
(* C17: logout() does not raise, with or without a token file, and after  *)
(* one call or two in a row there is no persisted record and _oauth is    *)
(* None.                                                                  *)
C17_LogoutIdempotent ==
    /\ logouts # "raised"
    /\ logouts \in {"once", "twice"} =>
           /\ tokenCache = NoToken
           /\ oauth = FALSE

(* Two logouts in a row after a call that left no token file. *)
C17_Witness ==
    /\ pc = "idle"
    /\ logouts = "twice"
    /\ oauth = FALSE
    /\ issued = 0
    /\ calls = 1
    /\ now > 0

(* C18: the authenticate() call that follows a logout() finds no cached   *)
(* token: it takes neither the cache-hit path nor a refresh, it goes      *)
(* through the interactive step, and a record it returns is one issued   *)
(* to it for the code it exchanged, not a record cached before the       *)
(* logout.                                                                *)
C18_LogoutForgetsToken ==
    afterLogout =>
        /\ startCache = NoToken
        /\ pc # "cache_hit"
        /\ CountEv(log, "refresh") = 0
        /\ Finished =>
               CountEv(log, "bind") + CountEv(log, "bind_failed") = 1
        /\ Succeeded =>
               /\ ret.access_token = <<"access", issued>>
               /\ log[Len(log) - Hooked("on_success")] = Ev("save", issued)
               /\ CountEv(log, "open_browser") = 1
               /\ CountEv(log, "exchange") = 1

(* The call after a logout that removed a cached record succeeds. *)
C18_Witness ==
    /\ afterLogout
    /\ calls = 2
    /\ issued = 2
    /\ Succeeded
(* The cache held an expired token record when the current call started. *)
ExpiredAtStart == IsToken(startCache) /\ startCache.expires_at - callStart < 60

(* C19: a call that finds an expired record makes exactly one refresh     *)
(* call, with that record's refresh_token; when the refresh succeeds the  *)
(* call binds no listener and opens no browser, and the record it returns *)
(* is the refreshed one, which expires strictly later than the old one.   *)
C19_ExpiredIsRefreshedOnce ==
    (ExpiredAtStart /\ pc \notin {"idle", "get_cached_token"}) =>
        /\ CountEv(log, "refresh") = 1
        /\ log[1] = Ev("refresh", startCache.refresh_token)
        /\ ~RefreshFailed =>
               /\ pc \in {"cache_hit", "returned", "raised"}
               /\ \A i \in 1..Len(log) :
                      log[i].ev \in {"refresh", "save", "on_success"}
               /\ token_info = tokenCache
               /\ token_info.expires_at > startCache.expires_at
               /\ pc = "returned" => ret = token_info
               /\ pc = "raised" => exc = "hook_error"

(* A record that expired as time passed has been refreshed and returned. *)
C19_Witness ==
    /\ ExpiredAtStart
    /\ startCache.expires_at > 0
    /\ pc = "returned"
    /\ IsToken(ret)
    /\ ret.expires_at = callStart + ExpiresIn
    /\ log = <<Ev("refresh", startCache.refresh_token), Ev("save", issued),
               Ev("on_success", "")>>
(* C20: an authenticate() started while this call is waiting fails at its *)
(* bind, and this call's pending result is not altered by it: once a      *)
(* request carrying a code or an error has been handled, the result       *)
(* fields hold what it carried and no further request is handled.         *)
C20_SecondAttemptIsHarmless ==
    second # None =>
        /\ second = "address_in_use"
        /\ \A i \in Requests :
               ~Malformed(log[i].query) =>
                   /\ \A j \in Requests : j <= i
                   /\ ~LoopCondition
                   /\ Carries(log[i].query, "code") =>
                          auth_code = Carried(log[i].query, "code")
                   /\ ~Carries(log[i].query, "code") =>
                          error = Carried(log[i].query, "error")

(* ---- properties of the client and the application ----------------------*)

(* The playback commands of the service. *)
PlaybackCommands == {"pause_playback", "start_playback"}

(* The entries of sent that are one of the calls cs. *)
CallsTo(cs) == {i \in DOMAIN sent : sent[i].call \in cs}

(* The repeat mode a current_playback result stands for. *)
ModeRead(current) ==
    IF current.kind = "playback" THEN current.repeat_state ELSE "off"

(* The cycle off -> context -> track -> off, as a sequence. *)
RepeatCycle == <<"off", "context", "track">>

Successor(mode) ==
    IF \E i \in 1..3 : RepeatCycle[i] = mode
    THEN RepeatCycle[((CHOOSE i \in 1..3 : RepeatCycle[i] = mode) % 3) + 1]
    ELSE "off"

(* The handlers of the playback key bindings. *)
PlaybackHandlers ==
    {"action_toggle_play", "action_next_track", "action_previous_track",
     "action_volume_up", "action_volume_down", "action_toggle_shuffle",
     "action_cycle_repeat"}

(* C21: with credentials configured and no usable cached token, start-up  *)
(* runs the authorization flow before the main screen is entered: the    *)
(* main screen is not entered with an unauthenticated client and no flow  *)
(* run.                                                                   *)
C21_StartupRunsFlow ==
    (op = "on_mount" /\ configured /\ result = "main" /\ ~is_authenticated)
        => CountEv(log, "open_browser") > 0

(* C22: a method called on a client that has not authenticated raises     *)
(* RuntimeError, sends nothing to the service and leaves the client       *)
(* unauthenticated.                                                       *)
C22_UnauthenticatedCallRaises ==
    (~is_authenticated /\ op # None) =>
        /\ raised = "RuntimeError"
        /\ sent = <<>>
        /\ result = None

(* A playback method was called before authenticate(). *)
C22_Witness ==
    /\ ~is_authenticated
    /\ op = "toggle_playback"
    /\ raised = "RuntimeError"
    /\ sent = <<>>

(* The value a method returns when its remote call fails. *)
FallbackOf(name) ==
    IF name = "get_playback_state" THEN "None"
    ELSE IF name = "cycle_repeat" THEN "off"
    ELSE IF name \in {"toggle_playback", "set_volume", "toggle_shuffle"}
    THEN "False"
    ELSE (CHOOSE m \in SimpleMethods : m.name = name).fallback

(* C23: a method of an authenticated client lets no SpotifyException      *)
(* escape: it returns, when its last remote call failed it returns its    *)
(* fallback value, and the client object is the one it was.               *)
C23_ServiceErrorsAreFallbacks ==
    [][ is_authenticated =>
          /\ sp' = sp
          /\ raised' = None
          /\ (sent' # <<>> /\ sent'[Len(sent')].outcome = "SpotifyException")
                 => result' = FallbackOf(op') ]_vars

(* A query and a command both failed at the service and gave fallbacks. *)
C23_Witness ==
    /\ is_authenticated
    /\ op = "cycle_repeat"
    /\ Len(sent) = 2
    /\ sent[1].outcome = "ok"
    /\ sent[2].outcome = "SpotifyException"
    /\ result = "off"
    /\ raised = None

(* C24: toggle_playback reads the playback state and then issues exactly  *)
(* one playback command: pause if the state was read and says playing,    *)
(* start otherwise, also when the state could not be read.                *)
C24_ToggleIssuesOneCommand ==
    (op = "toggle_playback" /\ is_authenticated) =>
        /\ Len(sent) = 2
        /\ sent[1].call = "current_playback"
        /\ Cardinality(CallsTo(PlaybackCommands)) = 1
        /\ sent[2].call =
               IF sent[1].value.kind = "playback" /\ sent[1].value.is_playing
               THEN "pause_playback" ELSE "start_playback"

(* The state could not be read and playback was started. *)
C24_Witness ==
    /\ op = "toggle_playback"
    /\ is_authenticated
    /\ Len(sent) = 2
    /\ sent[1].outcome = "SpotifyException"
    /\ sent[2].call = "start_playback"
    /\ sent[2].outcome = "ok"
    /\ result = "True"

(* C25: cycle_repeat sets, and on success returns, the successor of the   *)
(* mode it read in off -> context -> track -> off, and off for a mode it  *)
(* does not know; three successful calls in a row bring back the          *)
(* recognised mode they started from.                                     *)
C25_RepeatCycles ==
    /\ (op = "cycle_repeat" /\ is_authenticated /\ Len(sent) = 2) =>
           /\ sent[2].call = "repeat"
           /\ sent[2].arg = Successor(ModeRead(sent[1].value))
           /\ sent[2].outcome = "ok" => result = sent[2].arg
    /\ (cycled.n = 3 /\ cycled.from \in RepeatModes) =>
           remote.repeat_state = cycled.from

(* Three calls in a row, from context round to context. *)
C25_Witness ==
    /\ op = "cycle_repeat"
    /\ cycled = [from |-> "context", n |-> 3]
    /\ remote.repeat_state = "context"
    /\ result = "context"

(* The level a request for v stands for in the range 0..100. *)
InRange(v) == IF v < 0 THEN 0 ELSE IF v > 100 THEN 100 ELSE v

(* C26: volume is always within 0..100: the level set_volume sends to the *)
(* service is the requested one brought into 0..100, and the widget's     *)
(* volume and every VolumeChanged payload lie in 0..100 after any         *)
(* sequence of set_volume, increase_volume, decrease_volume and           *)
(* toggle_mute.                                                           *)
C26_VolumeClamped ==
    /\ volume \in 0..100
    /\ \A i \in DOMAIN posted : posted[i] \in 0..100
    /\ \A i \in CallsTo({"volume"}) :
           /\ sent[i].arg \in 0..100
           /\ \A v \in asked : sent[i].arg = InRange(v)

(* The client was asked for 250 and sent 100 while the widget, stepped    *)
(* down past zero and muted, is at 0.                                     *)
C26_Witness ==
    /\ op = "set_volume"
    /\ asked = {250}
    /\ sent[1].arg = 100
    /\ volume = 0
    /\ is_muted
    /\ posted = <<0>>

(* C27: a playback handler never raises: it does nothing when there is no *)
(* usable client, and a failure at the service is absorbed.               *)
C27_HandlersNeverRaise ==
    op \in PlaybackHandlers => raised = None

(* C29: is_authenticated() says whether a usable session exists: after    *)
(* logout() it is false until authenticate() succeeds again, so whenever  *)
(* it is true the cache holds a token record.                             *)
C29_AuthenticatedMeansSession ==
    is_authenticated => IsToken(tokenCache)

(* C28: when the user mutes and then unmutes without changing the volume  *)
(* in between, the VolumeChanged message of the second toggle carries the *)
(* volume the widget had just before the first, however the periodic      *)
(* refresh of the playback state falls between the two.                   *)
C28_UnmuteRestoresVolume ==
    mutedAt.toggles = 2 => mutedAt.unmuted = mutedAt.volume

(* The id of the first device of ds whose is_active flag is set, None    *)
(* when there is none.                                                   *)
RECURSIVE FirstActive(_)
FirstActive(ds) ==
    IF ds = <<>> THEN None
    ELSE IF Head(ds).is_active THEN Head(ds).id
    ELSE FirstActive(Tail(ds))

(* C30: after any set_devices call, active_device_id is the id of the    *)
(* first active device of the list it was given, and None when the list  *)
(* has no active device.                                                 *)
C30_ActiveIsFirstActive ==
    active_device_id = FirstActive(devices)
====
